---- MODULE Spec2Model ----
(***************************************************************************)
(* Model of smart-committer (src/src/index.ts): the scope inference of     *)
(* GitUtils.detectScopeFromDiff, the history statistics of                 *)
(* GitUtils.generateCommitStatistics and the single-commit run of          *)
(* SmartCommitter.processSingleCommit.                                     *)
(*                                                                         *)
(* Seven specifications share the variables:                               *)
(*   SpecScope     one call of detectScopeFromDiff on a bounded diff       *)
(*   SpecStats     one call of generateCommitStatistics or of              *)
(*                 analyzeCommitHistory on a bounded log                   *)
(*   SpecTemplate  one call of loadAndProcessTemplate                      *)
(*   SpecPrompt    one call of a provider's buildPrompt                    *)
(*   SpecConfig    one merge of command line, config file and defaults     *)
(*   SpecBatch     one run of processBatchMode                             *)
(*   Spec          one run of processSingleCommit                          *)
(***************************************************************************)
EXTENDS Integers, Sequences, FiniteSets, TLC

VARIABLES
    diff,          \* detectScopeFromDiff: the diff text, a sequence of lines
    scopePc,       \* "idle" | "call" | "returned"
    scopeResult,   \* the value returned by detectScopeFromDiff
    log,           \* generateCommitStatistics: log.all, a sequence of commits
    statsPc,       \* "idle" | "call" | "returned" | "thrown" |
                   \* "analyzed" | "analyzeThrown"
    report,        \* the value the history analysis returned
    config,        \* processSingleCommit: this.config (the fields it reads)
    env,           \* which API keys the environment holds
    pc,            \* position in processSingleCommit
    providers,     \* the ensemble's providers array
    messages,      \* per provider, the state of its promise and its text
    finalMessage,  \* the local finalMessage; Null while unassigned
    calls,         \* per provider name, the number of generateCommitMessage calls
    edited,        \* the text the editor prompt returned, Null before it
    shown,         \* console output that matters, in order
    asked,         \* the texts the user was shown a decision prompt for
    decision,      \* the user's answer, "none" before the prompt
    commits,       \* the messages handed to gitUtils.commitWithMessage
    outcome,       \* "running" | "resolved" | "rejected" and the error
    templateFile,  \* loadAndProcessTemplate: the file's text, Null if missing
    variables,     \* the variables argument of loadAndProcessTemplate
    tplPc,         \* "idle" | "call" | "returned"
    tplResult,     \* the value returned by loadAndProcessTemplate
    warnings,      \* console.warn / console.error output, in order
    promptConfig,  \* buildPrompt: the config fields it reads
    promptPc,      \* "idle" | "call" | "returned"
    prompt,        \* the prompt buildPrompt returned
    cliArgs,       \* main: per option, what the command line gave
    fileConfig,    \* main: per option, what the config file sets
    mergePc,       \* "idle" | "call" | "index" | "cli"
    parsed,        \* the effective configuration, or the failure to build it
    batchLog,      \* processBatchMode: what getLogForRange gives
    batchPc,       \* "idle" | "log" | "diff" | "generate" | "done"
    batchIdx,      \* the position in the log of the commit being processed
    batchOut,      \* console output of processBatchMode, in order
    batchOutcome   \* "running" | "resolved" | "rejected"

vars == <<diff, scopePc, scopeResult, log, statsPc, report, config, env, pc,
          providers, messages, finalMessage, calls, edited, shown, asked,
          decision, commits, outcome, templateFile, variables, tplPc,
          tplResult, warnings, promptConfig, promptPc, prompt, cliArgs,
          fileConfig, mergePc, parsed, batchLog, batchPc, batchIdx, batchOut,
          batchOutcome>>

scopeVars == <<diff, scopePc, scopeResult>>
statsVars == <<log, statsPc, report>>
templateVars == <<templateFile, variables, tplPc, tplResult, warnings>>
promptVars == <<promptConfig, promptPc, prompt>>
configVars == <<cliArgs, fileConfig, mergePc, parsed>>
batchVars == <<batchLog, batchPc, batchIdx, batchOut, batchOutcome>>
runVars == <<config, env, pc, providers, messages, finalMessage, calls, edited,
             shown, asked, decision, commits, outcome>>

(***************************************************************************)
(* JavaScript values.  null is the empty tuple and a string s the tuple    *)
(* <<s>>, so that a nullable string compares with = .                      *)
(***************************************************************************)
Null == <<>>
Some(s) == <<s>>

(***************************************************************************)
(* GENERIC HELPERS                                                         *)
(***************************************************************************)
RECURSIVE SumSeq(_)
SumSeq(s) == IF s = <<>> THEN 0 ELSE Head(s) + SumSeq(Tail(s))

RECURSIVE CountIn(_, _)
CountIn(s, x) ==
    IF s = <<>> THEN 0
    ELSE (IF Head(s) = x THEN 1 ELSE 0) + CountIn(Tail(s), x)

SeqsUpTo(S, n) == UNION {[1..k -> S] : k \in 0..n}

Range(s) == {s[i] : i \in 1..Len(s)}

(***************************************************************************)
(* SCOPE INFERENCE: GitUtils.detectScopeFromDiff                           *)
(*                                                                         *)
(* A path is kept as the code splits it: a non-empty sequence of segments  *)
(* (split('/')), each a non-empty sequence of dot-separated parts          *)
(* (split('.')).  "src/api/a.ts" is <<<<"src">>, <<"api">>, <<"a","ts">>>>,*)
(* ".gitignore" is <<<<"", "gitignore">>>> and "" is <<<<"">>>>.           *)
(* A line of the diff is its first six characters (head) and the rest     *)
(* (tail = line.substring(6)), the rest read as a path.                    *)
(***************************************************************************)
RECURSIVE JoinWith(_, _)
JoinWith(parts, sep) ==
    IF Len(parts) = 1 THEN Head(parts)
    ELSE Head(parts) \o sep \o JoinWith(Tail(parts), sep)

\* One segment as a string: its parts joined by "."
SegStr(seg) == JoinWith(seg, ".")

\* The whole path as a string: its segments joined by "/"
PathStr(p) == JoinWith([i \in 1..Len(p) |-> SegStr(p[i])], "/")

EmptyPath == << <<"">> >>

\* line.startsWith('--- a/') || line.startsWith('+++ b/')
IsPathLineLoose(line) == line.head \in {"--- a/", "+++ b/", "--- /d", "+++ /d"}
IsPathLine(line) == line.head \in {"--- a/", "+++ b/"}

\* The loop of lines 330-338: the paths pushed to filePaths, in line order.
RECURSIVE ExtractFilePaths(_)
ExtractFilePaths(d) ==
    IF d = <<>> THEN <<>>
    ELSE LET line == Head(d)
             filePath == line.tail
             rest == ExtractFilePaths(Tail(d))
         IN IF IsPathLine(line)
                /\ PathStr(filePath) # ""
                /\ PathStr(filePath) # "/dev/null"
            THEN <<filePath>> \o rest
            ELSE rest

\* Lines 348-355: parts[0] of a path with a separator, else the file name
\* up to its first dot.
GroupKey(filePath) ==
    IF Len(filePath) > 1 THEN SegStr(filePath[1]) ELSE filePath[1][1]

DirNamesOf(filePaths) == [i \in 1..Len(filePaths) |-> GroupKey(filePaths[i])]

(***************************************************************************)
(* A Record<string, number> created as {} is a plain object: reading a     *)
(* key it does not own falls through to Object.prototype.  For the names   *)
(* below obj[key] is a function, so (obj[key] || 0) + 1 is a string, not a *)
(* number.  An object is kept as its own entries in insertion order, which *)
(* is the order of Object.entries for keys that are not array indices (no  *)
(* key of DiffLines or LogCommits is one); a value is a number             *)
(* (num = TRUE) or a non-numeric string (num = FALSE).                     *)
(***************************************************************************)
ObjectPrototypeProps ==
    {"constructor", "toString", "valueOf", "hasOwnProperty", "isPrototypeOf",
     "propertyIsEnumerable", "toLocaleString"}

HasOwn(obj, key) == \E i \in 1..Len(obj) : obj[i].key = key

\* obj[key] = (obj[key] || 0) + 1
Increment(obj, key) ==
    IF HasOwn(obj, key)
    THEN [i \in 1..Len(obj) |->
            IF obj[i].key = key /\ obj[i].num
            THEN [obj[i] EXCEPT !.n = @ + 1] ELSE obj[i]]
    ELSE IF key \in ObjectPrototypeProps
         THEN Append(obj, [key |-> key, num |-> FALSE, n |-> 0])
         ELSE Append(obj, [key |-> key, num |-> TRUE, n |-> 1])

\* for (const k of names) obj[k] = (obj[k] || 0) + 1, starting from {}
RECURSIVE CountInto(_, _)
CountInto(obj, names) ==
    IF names = <<>> THEN obj
    ELSE CountInto(Increment(obj, Head(names)), Tail(names))

CountKeys(names) == CountInto(<<>>, names)

\* Lines 365-373 and 404-412: scan the entries, keep the first key whose
\* count exceeds the running maximum.  A string count compares false.
RECURSIVE MostCommonFrom(_, _, _)
MostCommonFrom(obj, maxCount, common) ==
    IF obj = <<>> THEN [dir |-> common, count |-> maxCount]
    ELSE LET e == Head(obj)
         IN IF e.num /\ e.n > maxCount
            THEN MostCommonFrom(Tail(obj), e.n, Some(e.key))
            ELSE MostCommonFrom(Tail(obj), maxCount, common)

MostCommon(obj) == MostCommonFrom(obj, 0, Null)

IsMajorityOrHalf(mc, total) ==
    mc.dir # Null /\ mc.dir # Some("") /\ 2 * mc.count >= total

\* Line 376: commonDir && maxCount > filePaths.length / 2
IsMajority(mc, total) ==
    mc.dir # Null /\ mc.dir # Some("") /\ 2 * mc.count > total

specialDirs ==
    <<"src", "lib", "test", "tests", "components", "pages", "utils", "config">>

\* Lines 388-394: parts[1] of every path under dir that has a second segment
RECURSIVE NextLevelDirs(_, _)
NextLevelDirs(filePaths, dir) ==
    IF filePaths = <<>> THEN <<>>
    ELSE LET parts == Head(filePaths)
             rest == NextLevelDirs(Tail(filePaths), dir)
         IN IF Len(parts) > 1 /\ SegStr(parts[1]) = dir /\ SegStr(parts[2]) # ""
            THEN <<SegStr(parts[2])>> \o rest
            ELSE rest

\* Lines 396-419: the label returned for a special directory that qualified
SpecialLabel(filePaths, dir) ==
    LET nextLevelDirs == NextLevelDirs(filePaths, dir)
        mc == MostCommon(CountKeys(nextLevelDirs))
    IN IF nextLevelDirs # <<>> /\ IsMajority(mc, Len(nextLevelDirs))
       THEN Some(dir \o "/" \o mc.dir[1])
       ELSE Some(dir)

\* Lines 382-424: the special directories from position i on
RECURSIVE SpecialScan(_, _, _)
SpecialScan(filePaths, dirNames, i) ==
    IF i > Len(specialDirs) THEN Null
    ELSE LET dir == specialDirs[i]
             dirOccurrences == CountIn(dirNames, dir)
         IN IF dirOccurrences > 0 /\ 3 * dirOccurrences > Len(filePaths)
            THEN SpecialLabel(filePaths, dir)
            ELSE SpecialScan(filePaths, dirNames, i + 1)

detectScopeFromDiff(d) ==
    LET filePaths == ExtractFilePaths(d)
        dirNames == DirNamesOf(filePaths)
        mc == MostCommon(CountKeys(dirNames))
    IN IF Len(filePaths) = 0 THEN Null
       ELSE IF IsMajority(mc, Len(filePaths)) THEN mc.dir
       ELSE SpecialScan(filePaths, dirNames, 1)


(***************************************************************************)
(* HISTORY STATISTICS: GitUtils.generateCommitStatistics                   *)
(*                                                                         *)
(* A commit of log.all is [message, date, author_name].  The trimmed       *)
(* message is kept as what the two regular expressions read of it: the     *)
(* leading word (\w+, "" if the message starts with no word character),   *)
(* the parenthesised group after it (Null if there is none), whether a    *)
(* colon follows, and the length of the whole message.  The date is the   *)
(* UTC day and the local hour that new Date(commit.date) gives, or Null   *)
(* when commit.date does not parse (toISOString then throws RangeError).  *)
(*                                                                         *)
(* A number that need not be an integer is the fraction [n, d], d > 0;     *)
(* d = 0 is NaN, which compares false with everything.                     *)
(***************************************************************************)
Frac(n, d) == [n |-> n, d |-> d]
FracLt(a, b) == a.d > 0 /\ b.d > 0 /\ a.n * b.d < b.n * a.d
FracEq(a, b) == a.d > 0 /\ b.d > 0 /\ a.n * b.d = b.n * a.d

\* Math.round of a non-negative fraction: halves round up
Round(a) == (2 * a.n + a.d) \div (2 * a.d)

\* message.match(/^(\w+)(?:\(.+\))?:/)
TypeMatch(message) ==
    message.word # "" /\ message.colon /\ message.paren # Some("")

\* message.match(/^\w+\((.+)\):/)
ScopeMatch(message) ==
    message.word # "" /\ message.colon
    /\ message.paren # Null /\ message.paren # Some("")

\* [...messageLengths].sort((a, b) => a - b)
RECURSIVE InsertSorted(_, _)
InsertSorted(s, x) ==
    IF s = <<>> THEN <<x>>
    ELSE IF x < Head(s) THEN <<x>> \o s
    ELSE <<Head(s)>> \o InsertSorted(Tail(s), x)

RECURSIVE SortAsc(_)
SortAsc(s) ==
    IF s = <<>> THEN <<>>
    ELSE InsertSorted(SortAsc(SubSeq(s, 1, Len(s) - 1)), s[Len(s)])

\* Lines 575-584
AverageUnguarded(lengths) == Frac(SumSeq(lengths), Len(lengths))
Average(lengths) ==
    IF Len(lengths) > 0 THEN Frac(SumSeq(lengths), Len(lengths)) ELSE Frac(0, 1)

MedianUpperCentral(sortedLengths) ==
    LET n == Len(sortedLengths)
    IN IF n > 0 THEN Frac(sortedLengths[n \div 2 + 1], 1) ELSE Frac(0, 1)

Median(sortedLengths) ==
    LET n == Len(sortedLengths)
    IN IF n > 0
       THEN IF n % 2 = 0
            THEN Frac(sortedLengths[n \div 2] + sortedLengths[n \div 2 + 1], 2)
            ELSE Frac(sortedLengths[n \div 2 + 1], 1)
       ELSE Frac(0, 1)

MessageLengthStats(messageLengths) ==
    LET sortedLengths == SortAsc(messageLengths)
    IN [min |-> IF sortedLengths = <<>> THEN 0 ELSE sortedLengths[1],
        max |-> IF sortedLengths = <<>> THEN 0
                ELSE sortedLengths[Len(sortedLengths)],
        average |-> Average(messageLengths),
        median |-> Median(sortedLengths)]

\* The loop of lines 537-571, one field of its state at a time
TypesOf(cs) == [i \in 1..Len(cs) |-> cs[i].message.word]
ScopesOf(cs) == [i \in 1..Len(cs) |-> cs[i].message.paren[1]]
LengthsOf(cs) == [i \in 1..Len(cs) |-> cs[i].message.len]
DayKeysOf(cs) == [i \in 1..Len(cs) |-> cs[i].date[1].day]
HourKeysOf(cs) == [i \in 1..Len(cs) |-> cs[i].date[1].hour]
AuthorsOf(cs) == [i \in 1..Len(cs) |-> cs[i].author_name]
IsTyped(c) == TypeMatch(c.message)
IsScoped(c) == ScopeMatch(c.message)
HasAuthor(c) == c.author_name # ""

CommitTypesOf(all) == CountKeys(TypesOf(SelectSeq(all, IsTyped)))
CommonScopesOf(all) == CountKeys(ScopesOf(SelectSeq(all, IsScoped)))
DailyCommitsOf(all) == CountKeys(DayKeysOf(all))
HourlyCommitsOf(all) == CountKeys(HourKeysOf(all))

\* authorStats, lines 564-570 and 587-594: per author, in order of first
\* commit, the number of commits and the rounded mean message length
RECURSIVE AuthorsInOrder(_, _)
AuthorsInOrder(names, seen) ==
    IF names = <<>> THEN <<>>
    ELSE IF Head(names) \in seen THEN AuthorsInOrder(Tail(names), seen)
    ELSE <<Head(names)>> \o AuthorsInOrder(Tail(names), seen \cup {Head(names)})

FinalAuthorStats(all) ==
    LET withAuthor == SelectSeq(all, HasAuthor)
        names == AuthorsInOrder(AuthorsOf(withAuthor), {})
        Entry(a) ==
            LET By(c) == c.author_name = a
                lens == LengthsOf(SelectSeq(withAuthor, By))
            IN [key |-> a, commits |-> Len(lens),
                avgMessageLength |-> Round(Frac(SumSeq(lens), Len(lens)))]
    IN [i \in 1..Len(names) |-> Entry(names[i])]

\* Object.values(commitTypes).reduce((a, b) => a + b, 0): a number while
\* every value is one, a string from the first string value on.
ValuesSum(obj) ==
    IF \A i \in 1..Len(obj) : obj[i].num
    THEN [num |-> TRUE, n |-> SumSeq([i \in 1..Len(obj) |-> obj[i].n])]
    ELSE [num |-> FALSE, n |-> 0]

\* Line 601: totalConventionalCommits / log.all.length < 0.5
FewTyped(total, n) == total.num /\ n > 0 /\ 2 * total.n < n

\* Line 606: messageLengthStats.average > 72
RecommendedLength == 72
TooLong(average) == FracLt(Frac(RecommendedLength, 1), average)

\* Lines 611-612: the first day of the highest count, if above 10
BusyDayCommits == 10
BusiestDay(dailyCommits) == MostCommon(dailyCommits)

SuggestionsFromTen(all, commitTypes, stats, dailyCommits) ==
    LET busiestDay == BusiestDay(dailyCommits)
    IN (IF FewTyped(ValuesSum(commitTypes), Len(all))
        THEN <<[kind |-> "adopt-type"]>> ELSE <<>>)
       \o (IF TooLong(stats.average)
           THEN <<[kind |-> "shorten", chars |-> Round(stats.average)]>>
           ELSE <<>>)
       \o (IF busiestDay.dir # Null /\ busiestDay.count >= BusyDayCommits
           THEN <<[kind |-> "batch", day |-> busiestDay.dir[1],
                   commits |-> busiestDay.count]>>
           ELSE <<>>)

Suggestions(all, commitTypes, stats, dailyCommits) ==
    LET busiestDay == BusiestDay(dailyCommits)
    IN (IF FewTyped(ValuesSum(commitTypes), Len(all))
        THEN <<[kind |-> "adopt-type"]>> ELSE <<>>)
       \o (IF TooLong(stats.average)
           THEN <<[kind |-> "shorten", chars |-> Round(stats.average)]>>
           ELSE <<>>)
       \o (IF busiestDay.dir # Null /\ busiestDay.count > BusyDayCommits
           THEN <<[kind |-> "batch", day |-> busiestDay.dir[1],
                   commits |-> busiestDay.count]>>
           ELSE <<>>)

StatsThrowsOnRecordsOnly(lg) ==
    \E i \in 1..Len(lg.all) :
        \/ lg.all[i].date = Null
        \/ lg.all[i].author_name \in ObjectPrototypeProps

\* What makes the body of the try block throw: the log query failing, a
\* date that does not parse, or an author name that Object.prototype
\* already defines (authorStats[name] is then a function without a
\* messageLengths array).
StatsThrows(lg) ==
    \/ ~lg.ok
    \/ \E i \in 1..Len(lg.all) :
          \/ lg.all[i].date = Null
          \/ lg.all[i].author_name \in ObjectPrototypeProps

generateCommitStatistics(lg) ==
    LET all == lg.all
        commitTypes == CommitTypesOf(all)
        dailyCommits == DailyCommitsOf(all)
        stats == MessageLengthStats(LengthsOf(all))
    IN [totalCommits |-> Len(all),
        commitTypes |-> commitTypes,
        commonScopes |-> CommonScopesOf(all),
        messageLengths |-> stats,
        daily |-> dailyCommits,
        hourly |-> HourlyCommitsOf(all),
        authorStats |-> FinalAuthorStats(all),
        suggestions |-> Suggestions(all, commitTypes, stats, dailyCommits)]


PrefixLength == 10

\* message.substring(0, 10) for a message of ten characters or more.  The
\* text of a message is not kept, so two messages share a prefix when they
\* start with the same word, group and colon.
PrefixOf(message) ==
    message.word
        \o (IF message.paren # Null THEN "(" \o message.paren[1] \o ")" ELSE "")
        \o (IF message.colon THEN ":" ELSE " ")

HasPrefix(c) == c.message.len >= PrefixLength
PrefixesOf(cs) == [i \in 1..Len(cs) |-> PrefixOf(cs[i].message)]

\* analyzeCommitHistory reads neither date nor author: only the log query
\* can make its try block throw
AnalyzeThrows(lg) == ~lg.ok

analyzeCommitHistory(lg) ==
    LET all == lg.all
    IN [commitTypes |-> CommitTypesOf(all),
        commonScopes |-> CommonScopesOf(all),
        averageMessageLength |-> Average(LengthsOf(all)),
        mostCommonPrefix |->
            MostCommonFrom(CountKeys(PrefixesOf(SelectSeq(all, HasPrefix))),
                           0, Some("")).dir[1]]

(***************************************************************************)
(* TEMPLATES: loadAndProcessTemplate                                       *)
(*                                                                         *)
(* A text is a sequence of tokens [t, v]: a run of whitespace, a run of    *)
(* other characters, or the characters {{key}} of one placeholder.         *)
(* A template file is [state, text]: "missing" when                        *)
(* fs.existsSync is false, "unreadable" when fs.readFileSync throws,       *)
(* "ok" with the text read otherwise.  No value holds a "$" (a             *)
(* replacement pattern of String.prototype.replace).                       *)
(***************************************************************************)
Ws == [t |-> "ws", v |-> " "]
Lit(s) == [t |-> "lit", v |-> s]
Ph(key) == [t |-> "ph", v |-> key]

Undefined == <<>>

\* text.replace(new RegExp(`{{${key}}}`, 'g'), value): one pass over the
\* text; what a replacement inserts is not scanned again by that pass
RECURSIVE ReplaceAll(_, _, _)
ReplaceAll(text, key, value) ==
    IF text = <<>> THEN <<>>
    ELSE (IF Head(text) = Ph(key) THEN value ELSE <<Head(text)>>)
             \o ReplaceAll(Tail(text), key, value)

\* text.replace('{{key}}', value): a string pattern replaces the first
\* occurrence only
ReplaceFirst(text, key, value) ==
    IF \E i \in 1..Len(text) : text[i] = Ph(key)
    THEN LET i == CHOOSE j \in 1..Len(text) :
                 /\ text[j] = Ph(key)
                 /\ \A k \in 1..(j - 1) : text[k] # Ph(key)
         IN  SubSeq(text, 1, i - 1) \o value \o SubSeq(text, i + 1, Len(text))
    ELSE text

\* String.prototype.trim
RECURSIVE TrimStart(_)
TrimStart(text) ==
    IF text # <<>> /\ Head(text) = Ws THEN TrimStart(Tail(text)) ELSE text

RECURSIVE TrimEnd(_)
TrimEnd(text) ==
    IF text # <<>> /\ text[Len(text)] = Ws
    THEN TrimEnd(SubSeq(text, 1, Len(text) - 1))
    ELSE text

NoTrim(text) == text

TrimText(text) == TrimEnd(TrimStart(text))

\* Object.entries(variables) of the object literal of lines 133-138
VariableKeys == <<"scope", "style", "lang", "model">>

\* The for loop of lines 1007-1011 from entry i on
RECURSIVE SubstituteUnguarded(_, _, _)
SubstituteUnguarded(text, vs, i) ==
    IF i > Len(VariableKeys) THEN text
    ELSE LET key == VariableKeys[i]
             value == vs[key]
         IN  SubstituteUnguarded(
                 ReplaceAll(text, key, IF value # Undefined THEN value[1]
                                       ELSE <<Lit("undefined")>>),
                 vs, i + 1)

RECURSIVE SubstituteFrom(_, _, _)
SubstituteFrom(text, vs, i) ==
    IF i > Len(VariableKeys) THEN text
    ELSE LET key == VariableKeys[i]
             value == vs[key]
         IN  SubstituteFrom(IF value # Undefined
                            THEN ReplaceAll(text, key, value[1])
                            ELSE text,
                            vs, i + 1)

loadAndProcessTemplate(file, vs) ==
    IF file.state # "ok" THEN Null
    ELSE Some(TrimText(SubstituteFrom(file.text, vs, 1)))

\* What loadAndProcessTemplate writes to the console (lines 1000, 1015)
LoadWarnings(file) ==
    CASE file.state = "missing" -> <<[kind |-> "warn", text |-> "not found"]>>
      [] file.state = "unreadable" ->
             <<[kind |-> "error", text |-> "Error loading template"]>>
      [] OTHER -> <<>>

(***************************************************************************)
(* PROMPTS: ClaudeProvider.buildPrompt and OpenAIProvider.buildPrompt      *)
(*                                                                         *)
(* The config fields read are template (Null or the template's name),      *)
(* scope (Undefined or a text), style, lang (a text), customPrompt (Null   *)
(* or a text) and detectScope.  The diff enters a prompt as one token.     *)
(***************************************************************************)
DiffText(d) == <<[t |-> "diff", v |-> "diff"]>>

getModelName == <<Lit("claude-3-haiku-20240307")>>

Truthy(s) == s # Null /\ s # Some(<<>>)

StyleHint(style) ==
    CASE style = "conventional" -> <<Lit("Use conventional commit format")>>
      [] style = "emoji" -> <<Lit("Include a relevant emoji")>>
      [] style = "gitmoji" -> <<Lit("Use gitmoji format")>>
      [] OTHER -> <<>>

LangHint(lang) ==
    IF lang # <<>> /\ lang # <<Lit("en")>>
    THEN <<Lit("Write the message in")>> \o lang
    ELSE <<>>

\* Lines 160-188 and 246-274, the same statements in both providers
DefaultPrompt(d, cfg) ==
    (IF Truthy(cfg.customPrompt) THEN cfg.customPrompt[1]
     ELSE <<Lit("You are a professional software developer.")>>
              \o StyleHint(cfg.style) \o LangHint(cfg.lang))
        \o <<Lit("Git diff:")>> \o DiffText(d)
        \o <<Lit("Important guidelines:")>>

TemplateVariables(cfg) ==
    [scope |-> cfg.scope, style |-> Some(<<Lit(cfg.style)>>),
     lang |-> Some(cfg.lang), model |-> Some(getModelName)]

\* Lines 142-153: the loaded template with {{diff}} and {{detectedScope}}
FillTemplate(content, d, cfg) ==
    LET withDiff == ReplaceFirst(content, "diff", DiffText(d))
        detectedScope == detectScopeFromDiff(d)
    IN  IF cfg.detectScope /\ detectedScope # Null
        THEN ReplaceFirst(withDiff, "detectedScope", <<Lit(detectedScope[1])>>)
        ELSE withDiff

\* ClaudeProvider.buildPrompt: [prompt, warnings]
ClaudeBuildPrompt(d, cfg, file) ==
    IF cfg.template # Null /\ cfg.template # Some("")
    THEN LET templateContent ==
                 loadAndProcessTemplate(file, TemplateVariables(cfg))
         IN  IF Truthy(templateContent)
             THEN [prompt |-> FillTemplate(templateContent[1], d, cfg),
                   warnings |-> LoadWarnings(file)]
             ELSE [prompt |-> DefaultPrompt(d, cfg),
                   warnings |-> LoadWarnings(file) \o
                       <<[kind |-> "warn", text |-> "Failed to load template"]>>]
    ELSE [prompt |-> DefaultPrompt(d, cfg), warnings |-> <<>>]

\* OpenAIProvider.buildPrompt: [prompt, warnings]
OpenAIBuildPrompt(d, cfg, file) ==
    [prompt |-> DefaultPrompt(d, cfg), warnings |-> <<>>]

(***************************************************************************)
(* OPTIONS: main of src/src/index.ts and the action of src/cli.js          *)
(*                                                                         *)
(* A value is [type, v] with the JavaScript type and the printed value; an *)
(* option nobody set is Undefined.  cliArgs is what the user typed,        *)
(* fileConfig what the parsed config file holds ({} when there is none).   *)
(***************************************************************************)
Str(s) == [type |-> "string", v |-> s]
Num(s) == [type |-> "number", v |-> s]
Bool(s) == [type |-> "boolean", v |-> s]

Options == {"model", "style", "batch", "maxDiffSize"}

\* The third argument of .option(...) in index.ts, lines 1028-1046
IndexCommanderDefault(o) ==
    CASE o = "model" -> Some(Str("claude"))
      [] o = "style" -> Some(Str("plain"))
      [] o = "maxDiffSize" -> Some(Str("10000"))
      [] OTHER -> Undefined

\* What commander hands to the action: the typed value, else the default
IndexCliOpts(args) ==
    [o \in Options |->
        IF args[o] # Undefined THEN args[o] ELSE IndexCommanderDefault(o)]

\* {...fileConfig, ...defined entries of cliOpts}, lines 1053-1064
MergeConfig(file, opts) ==
    [o \in Options |-> IF opts[o] # Undefined THEN opts[o] ELSE file[o]]

\* configSchema, lines 17-41
SchemaType(o) ==
    CASE o = "batch" -> "boolean"
      [] o = "maxDiffSize" -> "number"
      [] OTHER -> "string"

SchemaDefault(o) ==
    CASE o = "model" -> Str("claude")
      [] o = "style" -> Str("plain")
      [] o = "batch" -> Bool("false")
      [] OTHER -> Num("10000")

SchemaAccepts(o, value) ==
    /\ value.type = SchemaType(o)
    /\ o = "model" => value.v \in {"claude", "openai"}
    /\ o = "style" => value.v \in {"plain", "conventional", "emoji", "gitmoji"}

\* configSchema.parse: the config, or ok = FALSE for a ZodError
SchemaParse(merged) ==
    IF \A o \in Options : merged[o] # Undefined => SchemaAccepts(o, merged[o][1])
    THEN [ok |-> TRUE,
          config |-> [o \in Options |->
                         IF merged[o] # Undefined THEN merged[o]
                         ELSE Some(SchemaDefault(o))]]
    ELSE [ok |-> FALSE, config |-> merged]

\* The options cli.js declares and reads, lines 139-156
CliOptions == {"model", "style", "batch"}

CliCommanderDefault(o) ==
    CASE o = "model" -> Some(Str("claude-3-haiku-20240307"))
      [] o = "style" -> Some(Str("plain"))
      [] OTHER -> Undefined

CliBuiltIn(o) ==
    CASE o = "model" -> Str("claude-3-haiku-20240307")
      [] o = "style" -> Str("plain")
      [] OTHER -> Bool("false")

CliOpts(args) ==
    [o \in CliOptions |->
        IF args[o] # Undefined THEN args[o] ELSE CliCommanderDefault(o)]

\* JavaScript truthiness of an option value
IsTruthy(value) ==
    /\ value # Undefined
    /\ value[1] \notin {Str(""), Bool("false")}

\* a || b || c, and for batch the typeof test of line 155
CliEffective(o, opts, file) ==
    IF o = "batch"
    THEN IF opts[o] # Undefined THEN opts[o]
         ELSE IF IsTruthy(file[o]) THEN file[o] ELSE Some(Bool("false"))
    ELSE IF IsTruthy(opts[o]) THEN opts[o]
         ELSE IF IsTruthy(file[o]) THEN file[o] ELSE Some(CliBuiltIn(o))

(***************************************************************************)
(* THE SINGLE-COMMIT RUN: SmartCommitter.processSingleCommit               *)
(*                                                                         *)
(* A provider is named by its family.  A generated text is                 *)
(* [by, n, padded]: the provider that produced it, the ordinal of that     *)
(* provider's call, and whether whitespace surrounds it (a provider trims  *)
(* its answer, lines 122 and 237; an editor's text may be padded).         *)
(* Every await is a step: the model moves from one to the next.            *)
(***************************************************************************)
ModelNames == {"claude", "openai"}
OtherModel(m) == IF m = "claude" THEN "openai" ELSE "claude"

NoText == [by |-> "none", n |-> 0, padded |-> FALSE]
TextOf(p, n) == [by |-> p, n |-> n, padded |-> FALSE]
EditTexts == {[by |-> "user", n |-> 1, padded |-> FALSE],
              [by |-> "user", n |-> 2, padded |-> TRUE]}

KeepPadding(t) == t

\* String.prototype.trim
Trim(t) == [t EXCEPT !.padded = FALSE]

BuildProvidersMainFirst(cfg, e) ==
    <<cfg.model>>
    \o (IF e[OtherModel(cfg.model)] THEN <<OtherModel(cfg.model)>> ELSE <<>>)

\* Lines 801-821: the other family first, if its key is set, then the
\* provider the run was started with.
BuildProviders(cfg, e) ==
    (IF e[OtherModel(cfg.model)] THEN <<OtherModel(cfg.model)>> ELSE <<>>)
    \o <<cfg.model>>

\* Line 832: messages.filter(msg => msg !== null)
IsValid(m) == m.state = "ok"
ValidMessages(msgs) ==
    LET valid == SelectSeq(msgs, IsValid)
    IN [i \in 1..Len(valid) |-> valid[i].text]

\* Lines 838-850: validMessages[0]
SelectLast(validMessages) == validMessages[Len(validMessages)]
SelectFinal(validMessages) == validMessages[1]

\* Lines 910-911: this.config.apply, and not this.config.dryRun
ShouldCommitIgnoringDryRun(cfg) == cfg.apply
ShouldCommit(cfg) == cfg.apply /\ ~cfg.dryRun

Bump(c, p) == [c EXCEPT ![p] = @ + 1]

\* Lines 907-924: show the message, then commit, report a dry run or tip
Finish(msg, sh) ==
    /\ finalMessage' = Some(msg)
    /\ IF ShouldCommit(config)
       THEN /\ shown' = sh \o <<[kind |-> "final", text |-> msg]>>
            /\ commits' = Append(commits, msg)
            /\ pc' = "committing"
            /\ outcome' = outcome
       ELSE /\ shown' = sh \o <<[kind |-> "final", text |-> msg],
                               [kind |-> IF config.apply THEN "dry-run" ELSE "tip",
                                text |-> msg]>>
            /\ commits' = commits
            /\ pc' = "done"
            /\ outcome' = [state |-> "resolved", error |-> "none"]

\* Lines 861-875: with interactive set the prompt is raised, else line 907
AfterGeneration(msg, sh) ==
    IF config.interactive
    THEN /\ finalMessage' = Some(msg)
         /\ asked' = Append(asked, msg)
         /\ shown' = sh
         /\ pc' = "prompt"
         /\ UNCHANGED <<commits, outcome>>
    ELSE Finish(msg, sh) /\ asked' = asked

RejectWrapped(p) ==
    /\ outcome' = [state |-> "rejected",
                   error |-> "Error: " \o "GenerationError:" \o p]
    /\ pc' = "done"
    /\ UNCHANGED <<finalMessage, asked, shown, commits>>

\* A rejected generateCommitMessage outside the ensemble's catch: the
\* error leaves processSingleCommit as it is.
Reject(p) ==
    /\ outcome' = [state |-> "rejected", error |-> "GenerationError:" \o p]
    /\ pc' = "done"
    /\ UNCHANGED <<finalMessage, asked, shown, commits>>

\* Lines 797-831 and 856-858: up to the first await
Start ==
    /\ pc = "start"
    /\ IF config.ensemble
       THEN LET ps == BuildProviders(config, env)
            IN /\ providers' = ps
               /\ messages' = [i \in 1..Len(ps) |->
                                 [state |-> "pending", text |-> NoText]]
               /\ calls' = [p \in ModelNames |->
                              calls[p] + CountIn(ps, p)]
               /\ pc' = "fanout"
       ELSE /\ calls' = Bump(calls, config.model)
            /\ pc' = "single"
            /\ UNCHANGED <<providers, messages>>
    /\ UNCHANGED <<config, env, finalMessage, edited, shown, asked, decision,
                   commits, outcome>>
    /\ UNCHANGED <<scopeVars, statsVars, templateVars, promptVars, configVars, batchVars>>

\* Lines 824-829: one provider's promise settles; a rejection is caught,
\* warned about and turned into null
ProviderSettles(i) ==
    /\ pc = "fanout"
    /\ i \in 1..Len(providers)
    /\ messages[i].state = "pending"
    /\ \/ /\ messages' = [messages EXCEPT
                            ![i] = [state |-> "ok",
                                    text |-> TextOf(providers[i], calls[providers[i]])]]
          /\ shown' = shown
       \/ /\ messages' = [messages EXCEPT ![i].state = "failed"]
          /\ shown' = Append(shown, [kind |-> "warn", text |-> TextOf(providers[i], 0)])
    /\ UNCHANGED <<config, env, pc, providers, finalMessage, calls, edited,
                   asked, decision, commits, outcome>>
    /\ UNCHANGED <<scopeVars, statsVars, templateVars, promptVars, configVars, batchVars>>

JoinEarly ==
    /\ pc = "fanout"
    /\ LET validMessages == ValidMessages(messages)
       IN IF Len(validMessages) = 0
          THEN \* line 835 throws, line 851 catches, line 854 calls again
               /\ shown' = Append(shown, [kind |-> "ensemble-failed", text |-> NoText])
               /\ calls' = Bump(calls, config.model)
               /\ pc' = "fallback"
               /\ UNCHANGED <<finalMessage, asked, commits, outcome>>
          ELSE /\ AfterGeneration(
                    SelectFinal(validMessages),
                    IF Len(validMessages) = 1 THEN shown
                    ELSE shown \o [i \in 1..Len(validMessages) |->
                                     [kind |-> "candidate",
                                      text |-> validMessages[i]]])
               /\ calls' = calls
    /\ UNCHANGED <<config, env, providers, messages, edited, decision>>
    /\ UNCHANGED <<scopeVars, statsVars, templateVars, promptVars, configVars, batchVars>>

\* Lines 831-855: Promise.all has resolved
Join ==
    /\ pc = "fanout"
    /\ \A i \in 1..Len(messages) : messages[i].state # "pending"
    /\ LET validMessages == ValidMessages(messages)
       IN IF Len(validMessages) = 0
          THEN \* line 835 throws, line 851 catches, line 854 calls again
               /\ shown' = Append(shown, [kind |-> "ensemble-failed", text |-> NoText])
               /\ calls' = Bump(calls, config.model)
               /\ pc' = "fallback"
               /\ UNCHANGED <<finalMessage, asked, commits, outcome>>
          ELSE /\ AfterGeneration(
                    SelectFinal(validMessages),
                    IF Len(validMessages) = 1 THEN shown
                    ELSE shown \o [i \in 1..Len(validMessages) |->
                                     [kind |-> "candidate",
                                      text |-> validMessages[i]]])
               /\ calls' = calls
    /\ UNCHANGED <<config, env, providers, messages, edited, decision>>
    /\ UNCHANGED <<scopeVars, statsVars, templateVars, promptVars, configVars, batchVars>>

\* Lines 854 and 858: the single call of the main provider settles
SingleSettles ==
    /\ pc \in {"single", "fallback"}
    /\ \/ AfterGeneration(TextOf(config.model, calls[config.model]), shown)
       \/ Reject(config.model)
    /\ UNCHANGED <<config, env, providers, messages, calls, edited, decision>>
    /\ UNCHANGED <<scopeVars, statsVars, templateVars, promptVars, configVars, batchVars>>

\* Lines 877-904: the answer to the list prompt
Decide(action) ==
    /\ pc = "prompt"
    /\ decision' = action
    /\ CASE action = "accept" ->
              /\ Finish(finalMessage[1], shown)
              /\ UNCHANGED <<calls, asked>>
         [] action = "edit" ->
              /\ pc' = "editing"
              /\ UNCHANGED <<finalMessage, calls, shown, asked, commits, outcome>>
         [] action = "regenerate" ->
              /\ calls' = Bump(calls, config.model)
              /\ pc' = "regen"
              /\ UNCHANGED <<finalMessage, shown, asked, commits, outcome>>
         [] action = "cancel" ->
              /\ shown' = Append(shown, [kind |-> "cancelled", text |-> NoText])
              /\ pc' = "done"
              /\ outcome' = [state |-> "resolved", error |-> "none"]
              /\ UNCHANGED <<finalMessage, calls, asked, commits>>
    /\ UNCHANGED <<config, env, providers, messages, edited>>
    /\ UNCHANGED <<scopeVars, statsVars, templateVars, promptVars, configVars, batchVars>>

\* Lines 884-893: the editor prompt returns
EditDone(t) ==
    /\ pc = "editing"
    /\ edited' = Some(t)
    /\ Finish(Trim(t), shown)
    /\ UNCHANGED <<config, env, providers, messages, calls, asked, decision>>
    /\ UNCHANGED <<scopeVars, statsVars, templateVars, promptVars, configVars, batchVars>>

\* Lines 895-899: the regeneration by the main provider settles
RegenSettles ==
    /\ pc = "regen"
    /\ \/ /\ Finish(TextOf(config.model, calls[config.model]), shown)
          /\ asked' = asked
       \/ Reject(config.model)
    /\ UNCHANGED <<config, env, providers, messages, calls, edited, decision>>
    /\ UNCHANGED <<scopeVars, statsVars, templateVars, promptVars, configVars, batchVars>>

\* Lines 914-920: commitWithMessage settles; a failure is logged
CommitSettles ==
    /\ pc = "committing"
    /\ \E ok \in BOOLEAN :
          shown' = Append(shown, [kind |-> IF ok THEN "committed" ELSE "commit-failed",
                                  text |-> commits[Len(commits)]])
    /\ pc' = "done"
    /\ outcome' = [state |-> "resolved", error |-> "none"]
    /\ UNCHANGED <<config, env, providers, messages, finalMessage, calls,
                   edited, asked, decision, commits>>
    /\ UNCHANGED <<scopeVars, statsVars, templateVars, promptVars, configVars, batchVars>>


(***************************************************************************)
(* INPUTS                                                                  *)
(***************************************************************************)
MaxLines == 4
MaxLog == 3
LongLog == 11

OldLine(p) == [head |-> "--- a/", tail |-> p]
NewLine(p) == [head |-> "+++ b/", tail |-> p]

SrcApiA == << <<"src">>, <<"api">>, <<"a", "ts">> >>
SrcUiC == << <<"src">>, <<"ui">>, <<"c", "ts">> >>
LibC == << <<"lib">>, <<"c", "ts">> >>
RootA == << <<"a", "ts">> >>
RootB == << <<"b", "ts">> >>
DotFile == << <<"", "gitignore">> >>
CtorX == << <<"constructor">>, <<"x", "js">> >>
SrcCtorD == << <<"src">>, <<"constructor">>, <<"d", "ts">> >>

\* "--- /dev/null", the old side of an added file: its first six
\* characters are "--- /d" and the rest is "ev/null"
DevNullLine == [head |-> "--- /d", tail |-> << <<"ev">>, <<"null">> >>]
\* a line of content, "+code"
ContentLine == [head |-> "+code", tail |-> EmptyPath]

DiffLines ==
    {OldLine(SrcApiA), NewLine(SrcApiA), NewLine(SrcUiC), NewLine(LibC),
     NewLine(RootA), NewLine(RootB), NewLine(DotFile), NewLine(CtorX),
     NewLine(SrcCtorD), DevNullLine, ContentLine}

Msg(w, p, c, n) == [word |-> w, paren |-> p, colon |-> c, len |-> n]
Commit(m, d, a) == [message |-> m, date |-> d, author_name |-> a]
Day1Hour9 == Some([day |-> "2024-01-01", hour |-> "9"])
Day1Hour17 == Some([day |-> "2024-01-01", hour |-> "17"])
Day2Hour9 == Some([day |-> "2024-01-02", hour |-> "9"])

TypedCommit == Commit(Msg("feat", Null, TRUE, 30), Day1Hour9, "alice")
PlainCommit == Commit(Msg("Fix", Null, FALSE, 20), Day1Hour9, "alice")

LogCommits ==
    {TypedCommit, PlainCommit,
     Commit(Msg("feat", Some("api"), TRUE, 80), Day1Hour17, "bob"),
     Commit(Msg("fix", Some("ui"), TRUE, 81), Day2Hour9, "alice"),
     Commit(Msg("Update", Null, FALSE, 90), Day2Hour9, ""),
     Commit(Msg("constructor", Null, TRUE, 25), Day1Hour17, "bob"),
     Commit(Msg("feat", Some("api"), FALSE, 10), Day2Hour9, "bob"),
     Commit(Msg("Fix", Null, FALSE, 20), Null, "alice")}

LongCommits == {TypedCommit, PlainCommit}

Logs ==
    {[ok |-> o, all |-> a] : o \in {TRUE}, a \in SeqsUpTo(LogCommits, MaxLog)}
    \cup {[ok |-> TRUE, all |-> a] : a \in SeqsUpTo(LongCommits, LongLog)}
    \cup {[ok |-> FALSE, all |-> <<>>]}

Configs ==
    [model : ModelNames, ensemble : BOOLEAN, interactive : BOOLEAN,
     apply : BOOLEAN, dryRun : BOOLEAN]

(***************************************************************************)
(* INITIAL STATES AND SPECIFICATIONS                                       *)
(***************************************************************************)
\* Template files: every text of at most MaxTemplate tokens, a missing file
\* and a file that cannot be read
MaxTemplate == 3
TemplateTokens == {Ws, Lit("x"), Ph("scope"), Ph("lang"), Ph("diff")}

TemplateFiles ==
    {[state |-> "ok", text |-> t] : t \in SeqsUpTo(TemplateTokens, MaxTemplate)}
    \cup {[state |-> st, text |-> <<>>] : st \in {"missing", "unreadable"}}

\* scope is optional; style, lang and model always have a value
VariableSets ==
    {[scope |-> s, style |-> Some(<<Lit("plain")>>), lang |-> l,
      model |-> Some(getModelName)] :
        s \in {Undefined, Some(<<Lit("api")>>), Some(<<Ph("lang")>>)},
        l \in {Some(<<Lit("en")>>), Some(<<Ph("scope")>>)}}

\* What buildPrompt is called with
PromptConfigs ==
    [template : {Null, Some("conventional")},
     scope : {Undefined, Some(<<Lit("api")>>)},
     style : {"plain", "conventional"},
     lang : {<<Lit("en")>>, <<Lit("fr")>>},
     customPrompt : {Null, Some(<<Lit("custom")>>)},
     detectScope : BOOLEAN]

PromptFiles ==
    {[state |-> "missing", text |-> <<>>],
     [state |-> "unreadable", text |-> <<>>],
     [state |-> "ok", text |-> <<Ws>>],
     [state |-> "ok", text |-> <<Lit("x"), Ph("diff")>>],
     [state |-> "ok", text |-> <<Ph("detectedScope"), Ph("diff"), Ws>>],
     [state |-> "ok", text |-> <<Ph("scope"), Ph("diff"), Ph("diff")>>]}

PromptDiffs ==
    {<<>>, <<NewLine(SrcApiA)>>, <<NewLine(RootA), NewLine(RootB)>>}

\* What the command line and the config file can set
CliArgSets ==
    [model : {Undefined, Some(Str("openai"))},
     style : {Undefined, Some(Str("conventional"))},
     batch : {Undefined, Some(Bool("true"))},
     maxDiffSize : {Undefined, Some(Str("500"))}]

FileConfigs ==
    [model : {Undefined, Some(Str("openai"))},
     style : {Undefined, Some(Str("conventional"))},
     batch : {Undefined, Some(Bool("true")), Some(Bool("false"))},
     maxDiffSize : {Undefined, Some(Num("500"))}]

NoReport == [totalCommits |-> -1]

ScopeIdle == diff = <<>> /\ scopePc = "idle" /\ scopeResult = Null
StatsIdle ==
    log = [ok |-> TRUE, all |-> <<>>] /\ statsPc = "idle" /\ report = NoReport
RunIdle ==
    /\ config = [model |-> "claude", ensemble |-> FALSE, interactive |-> FALSE,
                 apply |-> FALSE, dryRun |-> FALSE]
    /\ env = [p \in ModelNames |-> TRUE]
    /\ pc = "idle"
    /\ providers = <<>>
    /\ messages = <<>>
    /\ finalMessage = Null
    /\ calls = [p \in ModelNames |-> 0]
    /\ edited = Null
    /\ shown = <<>>
    /\ asked = <<>>
    /\ decision = "none"
    /\ commits = <<>>
    /\ outcome = [state |-> "running", error |-> "none"]

TemplateIdle ==
    /\ templateFile = [state |-> "missing", text |-> <<>>]
    /\ variables = [k \in Range(VariableKeys) |-> Undefined]
    /\ tplPc = "idle"
    /\ tplResult = Null
    /\ warnings = <<>>
PromptIdle ==
    /\ promptConfig = [template |-> Null, scope |-> Undefined, style |-> "plain",
                       lang |-> <<Lit("en")>>, customPrompt |-> Null,
                       detectScope |-> FALSE]
    /\ promptPc = "idle"
    /\ prompt = <<>>
ConfigIdle ==
    /\ cliArgs = [o \in Options |-> Undefined]
    /\ fileConfig = [o \in Options |-> Undefined]
    /\ mergePc = "idle"
    /\ parsed = [ok |-> FALSE, config |-> [o \in Options |-> Undefined]]

BatchIdle ==
    /\ batchLog = [ok |-> TRUE, all |-> <<>>]
    /\ batchPc = "idle"
    /\ batchIdx = 0
    /\ batchOut = <<>>
    /\ batchOutcome = "running"

\* detectScopeFromDiff is about to be called on a diff
InitScope ==
    /\ diff \in SeqsUpTo(DiffLines, MaxLines)
    /\ scopePc = "call"
    /\ scopeResult = Null
    /\ StatsIdle
    /\ RunIdle
    /\ TemplateIdle
    /\ PromptIdle
    /\ ConfigIdle
    /\ BatchIdle

DetectScope ==
    /\ scopePc = "call"
    /\ scopeResult' = detectScopeFromDiff(diff)
    /\ scopePc' = "returned"
    /\ UNCHANGED <<diff, statsVars, runVars, templateVars, promptVars, configVars, batchVars>>

NextScope == DetectScope

SpecScope == InitScope /\ [][NextScope]_vars

\* generateCommitStatistics or analyzeCommitHistory is about to be called;
\* log is what git.log gives
InitStats ==
    /\ log \in Logs
    /\ statsPc = "call"
    /\ report = NoReport
    /\ ScopeIdle
    /\ RunIdle
    /\ TemplateIdle
    /\ PromptIdle
    /\ ConfigIdle
    /\ BatchIdle

GenerateStats ==
    /\ statsPc = "call"
    /\ IF StatsThrows(log)
       THEN statsPc' = "thrown" /\ report' = report
       ELSE statsPc' = "returned" /\ report' = generateCommitStatistics(log)
    /\ UNCHANGED <<log, scopeVars, runVars, templateVars, promptVars, configVars, batchVars>>

AnalyzeHistory ==
    /\ statsPc = "call"
    /\ IF AnalyzeThrows(log)
       THEN statsPc' = "analyzeThrown" /\ report' = report
       ELSE statsPc' = "analyzed" /\ report' = analyzeCommitHistory(log)
    /\ UNCHANGED <<log, scopeVars, runVars, templateVars, promptVars, configVars, batchVars>>

NextStats == GenerateStats \/ AnalyzeHistory

SpecStats == InitStats /\ [][NextStats]_vars

\* loadAndProcessTemplate is about to be called
InitTemplate ==
    /\ templateFile \in TemplateFiles
    /\ variables \in VariableSets
    /\ tplPc = "call"
    /\ tplResult = Null
    /\ warnings = <<>>
    /\ ScopeIdle
    /\ StatsIdle
    /\ RunIdle
    /\ PromptIdle
    /\ ConfigIdle
    /\ BatchIdle

LoadTemplate ==
    /\ tplPc = "call"
    /\ tplResult' = loadAndProcessTemplate(templateFile, variables)
    /\ warnings' = warnings \o LoadWarnings(templateFile)
    /\ tplPc' = "returned"
    /\ UNCHANGED <<templateFile, variables>>
    /\ UNCHANGED <<scopeVars, statsVars, runVars, promptVars, configVars, batchVars>>

NextTemplate == LoadTemplate

SpecTemplate == InitTemplate /\ [][NextTemplate]_vars

\* A provider's buildPrompt is about to be called on a diff
InitPrompt ==
    /\ promptConfig \in PromptConfigs
    /\ templateFile \in PromptFiles
    /\ diff \in PromptDiffs
    /\ promptPc = "call"
    /\ prompt = <<>>
    /\ warnings = <<>>
    /\ variables = [k \in Range(VariableKeys) |-> Undefined]
    /\ tplPc = "idle"
    /\ tplResult = Null
    /\ scopePc = "idle"
    /\ scopeResult = Null
    /\ StatsIdle
    /\ RunIdle
    /\ ConfigIdle
    /\ BatchIdle

ClaudeBuilds ==
    /\ promptPc = "call"
    /\ LET built == ClaudeBuildPrompt(diff, promptConfig, templateFile)
       IN  /\ prompt' = built.prompt
           /\ warnings' = warnings \o built.warnings
    /\ promptPc' = "claude"
    /\ UNCHANGED <<promptConfig, templateFile, variables, tplPc, tplResult>>
    /\ UNCHANGED <<scopeVars, statsVars, runVars, configVars, batchVars>>

OpenAIBuilds ==
    /\ promptPc = "call"
    /\ LET built == OpenAIBuildPrompt(diff, promptConfig, templateFile)
       IN  /\ prompt' = built.prompt
           /\ warnings' = warnings \o built.warnings
    /\ promptPc' = "openai"
    /\ UNCHANGED <<promptConfig, templateFile, variables, tplPc, tplResult>>
    /\ UNCHANGED <<scopeVars, statsVars, runVars, configVars, batchVars>>

NextPrompt == ClaudeBuilds \/ OpenAIBuilds

SpecPrompt == InitPrompt /\ [][NextPrompt]_vars

\* The program is started with cliArgs in a directory holding fileConfig
InitConfig ==
    /\ cliArgs \in CliArgSets
    /\ fileConfig \in FileConfigs
    /\ mergePc = "call"
    /\ parsed = [ok |-> FALSE, config |-> [o \in Options |-> Undefined]]
    /\ ScopeIdle
    /\ StatsIdle
    /\ RunIdle
    /\ TemplateIdle
    /\ PromptIdle
    /\ BatchIdle

\* main of src/src/index.ts, lines 1048-1066
IndexMain ==
    /\ mergePc = "call"
    /\ parsed' = SchemaParse(MergeConfig(fileConfig, IndexCliOpts(cliArgs)))
    /\ mergePc' = "index"
    /\ UNCHANGED <<cliArgs, fileConfig>>
    /\ UNCHANGED <<scopeVars, statsVars, runVars, templateVars, promptVars, batchVars>>

\* The action of src/cli.js, lines 148-156.  cli.js declares no
\* --max-diff-size: commander rejects the option and exits.
CliMain ==
    /\ mergePc = "call"
    /\ parsed' =
          IF cliArgs["maxDiffSize"] # Undefined
          THEN [ok |-> FALSE, config |-> [o \in CliOptions |-> Undefined]]
          ELSE [ok |-> TRUE,
                config |-> [o \in CliOptions |->
                               CliEffective(o, CliOpts(cliArgs), fileConfig)]]
    /\ mergePc' = "cli"
    /\ UNCHANGED <<cliArgs, fileConfig>>
    /\ UNCHANGED <<scopeVars, statsVars, runVars, templateVars, promptVars, batchVars>>

NextConfig == IndexMain \/ CliMain

SpecConfig == InitConfig /\ [][NextConfig]_vars

(***************************************************************************)
(* BATCH MODE: SmartCommitter.processBatchMode, lines 927-966              *)
(*                                                                         *)
(* A commit of the range is named by its hash, a number of 1..MaxBatch.    *)
(* batchLog is what getLogForRange (lines 643-653) settles with: the       *)
(* commits of log.all in the order git gives them, or a rejection.  A      *)
(* line of console output is [kind, hash], hash 0 when it names no commit. *)
(***************************************************************************)
MaxBatch == 3

NoHash == 0

Hashes == 1..MaxBatch

RECURSIVE Distinct(_)
Distinct(s) ==
    IF Len(s) <= 1 THEN TRUE
    ELSE /\ \A i \in 2..Len(s) : s[i] # s[1]
         /\ Distinct(Tail(s))

BatchLogs ==
    {[ok |-> TRUE, all |-> s] :
        s \in {t \in UNION {[1..n -> Hashes] : n \in 0..MaxBatch} : Distinct(t)}}
    \cup {[ok |-> FALSE, all |-> <<>>]}

Said(kind, hash) == [kind |-> kind, hash |-> hash]

\* processBatchMode has asked for the range and awaits getLogForRange
InitBatch ==
    /\ batchLog \in BatchLogs
    /\ batchPc = "log"
    /\ batchIdx = 0
    /\ batchOut = <<>>
    /\ batchOutcome = "running"
    /\ ScopeIdle
    /\ StatsIdle
    /\ RunIdle
    /\ TemplateIdle
    /\ PromptIdle
    /\ ConfigIdle

\* The head of the for-of loop, lines 950-951: the next commit of the log is
\* announced and its diff awaited, or the loop and the method end.
BatchEnter(out, i) ==
    IF i <= Len(batchLog.all)
    THEN /\ batchOut' = Append(out, Said("processing", batchLog.all[i]))
         /\ batchIdx' = i
         /\ batchPc' = "diff"
         /\ batchOutcome' = batchOutcome
    ELSE /\ batchOut' = out
         /\ batchIdx' = batchIdx
         /\ batchPc' = "done"
         /\ batchOutcome' = "resolved"

\* A loop body that stops at the first failure instead of catching it
BatchFailedAborts(hash) ==
    /\ batchOut' = Append(batchOut, Said("error", hash))
    /\ batchIdx' = batchIdx
    /\ batchPc' = "done"
    /\ batchOutcome' = "rejected"

\* The catch of the loop body, lines 962-964: the failure is printed and
\* the loop goes on with the next commit.
BatchFailed(hash) ==
    BatchEnter(Append(batchOut, Said("error", hash)), batchIdx + 1)

\* getLogForRange settles, lines 940-947
BatchLogSettles ==
    /\ batchPc = "log"
    /\ IF ~batchLog.ok
       THEN /\ batchPc' = "done"
            /\ batchOutcome' = "rejected"
            /\ UNCHANGED <<batchIdx, batchOut>>
       ELSE IF Len(batchLog.all) = 0
       THEN /\ batchPc' = "done"
            /\ batchOutcome' = "resolved"
            /\ batchOut' = Append(batchOut, Said("none", NoHash))
            /\ UNCHANGED batchIdx
       ELSE BatchEnter(Append(batchOut, Said("found", NoHash)), 1)
    /\ UNCHANGED <<batchLog, scopeVars, statsVars, runVars, templateVars,
                   promptVars, configVars>>

\* getDiffForCommit settles, line 954
BatchDiffSettles(ok) ==
    /\ batchPc = "diff"
    /\ IF ok
       THEN /\ batchPc' = "generate"
            /\ UNCHANGED <<batchIdx, batchOut, batchOutcome>>
       ELSE BatchFailed(batchLog.all[batchIdx])
    /\ UNCHANGED <<batchLog, scopeVars, statsVars, runVars, templateVars,
                   promptVars, configVars>>

\* provider.generateCommitMessage settles, lines 955-958
BatchGenerateSettles(ok) ==
    /\ batchPc = "generate"
    /\ IF ok
       THEN BatchEnter(batchOut \o <<Said("original", batchLog.all[batchIdx]),
                                     Said("generated", batchLog.all[batchIdx])>>,
                       batchIdx + 1)
       ELSE BatchFailed(batchLog.all[batchIdx])
    /\ UNCHANGED <<batchLog, scopeVars, statsVars, runVars, templateVars,
                   promptVars, configVars>>

NextBatch ==
    \/ BatchLogSettles
    \/ \E ok \in BOOLEAN : BatchDiffSettles(ok)
    \/ \E ok \in BOOLEAN : BatchGenerateSettles(ok)

SpecBatch == InitBatch /\ [][NextBatch]_vars

\* processSingleCommit is about to be called.  createProvider (lines
\* 783-791) has built the main provider, so the key of config.model is set.
Init ==
    /\ config \in Configs
    /\ env \in [ModelNames -> BOOLEAN]
    /\ env[config.model]
    /\ pc = "start"
    /\ providers = <<>>
    /\ messages = <<>>
    /\ finalMessage = Null
    /\ calls = [p \in ModelNames |-> 0]
    /\ edited = Null
    /\ shown = <<>>
    /\ asked = <<>>
    /\ decision = "none"
    /\ commits = <<>>
    /\ outcome = [state |-> "running", error |-> "none"]
    /\ ScopeIdle
    /\ StatsIdle
    /\ TemplateIdle
    /\ PromptIdle
    /\ ConfigIdle
    /\ BatchIdle

Next ==
    \/ Start
    \/ \E i \in 1..2 : ProviderSettles(i)
    \/ Join
    \/ SingleSettles
    \/ \E action \in {"accept", "edit", "regenerate", "cancel"} : Decide(action)
    \/ \E t \in EditTexts : EditDone(t)
    \/ RegenSettles
    \/ CommitSettles

Spec == Init /\ [][Next]_vars


(***************************************************************************)
(* CLAIMS                                                                  *)
(***************************************************************************)
\* The touched paths of the diff under test and their grouping keys
TouchedPaths == ExtractFilePaths(diff)
TouchedKeys == DirNamesOf(TouchedPaths)

\* C1 (SpecScope): whenever one grouping key occurs in strictly more than
\* half of the touched paths, detectScopeFromDiff returns exactly that key.
C1_MajorityKeyReturned ==
    scopePc = "returned" =>
        \A k \in Range(TouchedKeys) :
            2 * CountIn(TouchedKeys, k) > Len(TouchedPaths)
                => scopeResult = Some(k)

\* A line that names a path other than the sentinels "" and "/dev/null"
NamesRealPath(line) ==
    /\ line.head \in {"--- a/", "+++ b/"}
    /\ PathStr(line.tail) \notin {"", "/dev/null"}

\* C2 (SpecScope): detectScopeFromDiff returns null when the diff names no
\* path other than the sentinel (an empty diff included), and it always
\* returns, either null or one label.
C2_NoPathNoLabel ==
    scopePc # "call" =>
        /\ scopePc = "returned"
        /\ Len(scopeResult) <= 1
        /\ (\A i \in 1..Len(diff) : ~NamesRealPath(diff[i])) => scopeResult = Null

\* C2 witness: a diff of sentinel and content lines only has been answered null
C2_Witness ==
    /\ scopePc = "returned"
    /\ DevNullLine \in Range(diff)
    /\ \A i \in 1..Len(diff) : ~NamesRealPath(diff[i])
    /\ scopeResult = Null

\* The ensemble's fan-out has been joined
Joined == config.ensemble /\ pc \notin {"idle", "start", "fanout"}

\* C3 (Spec): in ensemble mode, whatever the order in which the providers
\* settle, once the fan-out is joined with at least one success every
\* provider has settled (a failure aborted nothing), the final message is
\* the text of the first provider in array order that succeeded, and with
\* two or more successes every successful text has been shown.
C3_FirstSuccessInOrder ==
    (Joined /\ \E i \in 1..Len(messages) : messages[i].state = "ok") =>
        /\ \A i \in 1..Len(messages) : messages[i].state # "pending"
        /\ outcome.state # "rejected" \/ decision = "regenerate"
        /\ decision \in {"none", "accept"} =>
              \E i \in 1..Len(messages) :
                  /\ messages[i].state = "ok"
                  /\ \A j \in 1..(i - 1) : messages[j].state # "ok"
                  /\ finalMessage = Some(messages[i].text)
        /\ Cardinality({i \in 1..Len(messages) : messages[i].state = "ok"}) >= 2 =>
              \A i \in 1..Len(messages) :
                  [kind |-> "candidate", text |-> messages[i].text] \in Range(shown)

\* C3 witness: both providers succeeded and the run ended with the first
\* provider's text
C3_Witness ==
    /\ Joined
    /\ Len(messages) = 2
    /\ messages[1].state = "ok" /\ messages[2].state = "ok"
    /\ finalMessage = Some(messages[1].text)
    /\ pc = "done"

\* C4 (Spec): in ensemble mode, when every provider of the fan-out failed,
\* the call does not resolve and no message is kept, shown as the final
\* message or committed.
C4_AllFailedNoMessage ==
    (Joined /\ \A i \in 1..Len(messages) : messages[i].state = "failed") =>
        /\ finalMessage = Null
        /\ commits = <<>>
        /\ \A i \in 1..Len(shown) : shown[i].kind # "final"
        /\ outcome.state # "resolved"

\* C5 (Spec): after a regenerate decision, once the new text is there the
\* run is back at the decision prompt.
C5_RegenerateReturnsToProposed ==
    (decision = "regenerate" /\ pc # "regen" /\ outcome.state # "rejected")
        => pc = "prompt"

\* C6 (Spec): in interactive mode every message handed to commitWithMessage
\* was accepted at the prompt raised for it, or is the trimmed text of the
\* editor.
C6_OnlyAcceptedCommitted ==
    config.interactive =>
        \A i \in 1..Len(commits) :
            \/ decision = "accept" /\ commits[i] \in Range(asked)
            \/ decision = "edit" /\ edited # Null /\ commits[i] = Trim(edited[1])

\* C7 (Spec): commitWithMessage is called at most once in a run, and never
\* after cancel, with dryRun set or with apply unset.
C7_CommitAtMostOnce ==
    /\ Len(commits) <= 1
    /\ (decision = "cancel" \/ config.dryRun \/ ~config.apply) => commits = <<>>

\* C7 witness: a run that would have committed ended by cancel
C7_Witness ==
    /\ decision = "cancel"
    /\ config.apply /\ ~config.dryRun
    /\ pc = "done"
    /\ commits = <<>>

\* The sum of the counts of a frequency map, if all of them are numbers
AllNumbers(obj) == \A i \in 1..Len(obj) : obj[i].num
CountSum(obj) == SumSeq([i \in 1..Len(obj) |-> obj[i].n])
CommitsSum(stats) == SumSeq([i \in 1..Len(stats) |-> stats[i].commits])

\* C8 (SpecStats): in every report the per-day, per-hour and per-author
\* counts each sum to totalCommits, and the type and scope counts are
\* numbers that sum to at most totalCommits, the scopes to at most the types.
C8_ReportSumsToTotal ==
    statsPc = "returned" =>
        /\ report.totalCommits = Len(log.all)
        /\ AllNumbers(report.daily) /\ CountSum(report.daily) = report.totalCommits
        /\ AllNumbers(report.hourly) /\ CountSum(report.hourly) = report.totalCommits
        /\ CommitsSum(report.authorStats) = report.totalCommits
        /\ AllNumbers(report.commitTypes)
        /\ AllNumbers(report.commonScopes)
        /\ CountSum(report.commitTypes) <= report.totalCommits
        /\ CountSum(report.commonScopes) <= CountSum(report.commitTypes)

\* C9 (SpecStats): on an empty log the call returns, with totalCommits 0,
\* every map empty and min, max, average and median all 0 (no NaN).
C9_EmptyLog ==
    (statsPc \in {"returned", "thrown"} /\ log.ok /\ log.all = <<>>) =>
        /\ statsPc = "returned"
        /\ report.totalCommits = 0
        /\ report.commitTypes = <<>> /\ report.commonScopes = <<>>
        /\ report.daily = <<>> /\ report.hourly = <<>>
        /\ report.authorStats = <<>>
        /\ report.messageLengths.min = 0 /\ report.messageLengths.max = 0
        /\ FracEq(report.messageLengths.average, Frac(0, 1))
        /\ FracEq(report.messageLengths.median, Frac(0, 1))

\* C9 witness: the call on an empty log has returned
C9_Witness == statsPc = "returned" /\ log.all = <<>>

\* C10 (SpecStats): the adopt-a-type suggestion is in the report exactly
\* when fewer than half of the commits have a conventional type prefix.
C10_AdoptTypeIffUnderHalf ==
    statsPc = "returned" =>
        ([kind |-> "adopt-type"] \in Range(report.suggestions)
            <=> 2 * Len(SelectSeq(log.all, IsTyped)) < Len(log.all))

\* A variable the caller supplied with a defined value
Supplied(key) == key \in Range(VariableKeys) /\ variables[key] # Undefined

KeyIndex(key) == CHOOSE i \in 1..Len(VariableKeys) : VariableKeys[i] = key

\* The template under test names no supplied variable
NoMatchingPlaceholder ==
    \A i \in 1..Len(templateFile.text) :
        ~(templateFile.text[i].t = "ph" /\ Supplied(templateFile.text[i].v))

\* A text without the whitespace before its first and after its last
\* other token
Stripped(text) ==
    LET solid == {i \in 1..Len(text) : text[i] # Ws}
    IN  IF solid = {} THEN <<>>
        ELSE SubSeq(text, CHOOSE i \in solid : \A j \in solid : i <= j,
                          CHOOSE i \in solid : \A j \in solid : i >= j)

\* C11 as stated (SpecTemplate): for a template that names no supplied
\* variable, loadAndProcessTemplate returns the template text unchanged.
C11_OutputEqualsInput ==
    (tplPc = "returned" /\ templateFile.state = "ok" /\ NoMatchingPlaceholder)
        => tplResult = Some(templateFile.text)

\* C11 amended (SpecTemplate): for a template that names no supplied
\* variable, loadAndProcessTemplate returns the template text with the
\* whitespace at its two ends removed, and otherwise unchanged.
C11_OutputIsTrimmedInput ==
    (tplPc = "returned" /\ templateFile.state = "ok" /\ NoMatchingPlaceholder)
        => tplResult = Some(Stripped(templateFile.text))

\* C11 witness: a template that starts with whitespace and names only the
\* undefined scope has been returned without that whitespace
C11_Witness ==
    /\ tplPc = "returned"
    /\ templateFile.state = "ok"
    /\ NoMatchingPlaceholder
    /\ Len(templateFile.text) = MaxTemplate
    /\ templateFile.text[1] = Ws
    /\ Ph("scope") \in Range(templateFile.text)
    /\ tplResult = Some(Tail(templateFile.text))

\* What an occurrence becomes: a placeholder of a supplied variable whose
\* turn in the loop comes after turn i becomes that variable's value, itself
\* read the same way; every other token stays
RECURSIVE ResolvedValue(_)
RECURSIVE ExpandAfter(_, _)
ExpandAfter(text, i) ==
    IF text = <<>> THEN <<>>
    ELSE LET tok == Head(text)
         IN  (IF tok.t = "ph" /\ Supplied(tok.v) /\ KeyIndex(tok.v) > i
              THEN ResolvedValue(KeyIndex(tok.v))
              ELSE <<tok>>) \o ExpandAfter(Tail(text), i)

ResolvedValue(i) == ExpandAfter(variables[VariableKeys[i]][1], i)

\* C12 (SpecTemplate): loadAndProcessTemplate replaces every occurrence of
\* {{key}} in the template for each key with a defined value, and leaves
\* every occurrence untouched for a key whose value is undefined and for a
\* placeholder that names no supplied variable.
C12_EveryDefinedOccurrenceReplaced ==
    (tplPc = "returned" /\ templateFile.state = "ok")
        => tplResult = Some(Stripped(ExpandAfter(templateFile.text, 0)))

\* C12 witness: {{lang}} twice and {{scope}} once, scope undefined: both
\* {{lang}} became the language and {{scope}} stayed
C12_Witness ==
    /\ tplPc = "returned"
    /\ templateFile = [state |-> "ok",
                       text |-> <<Ph("lang"), Ph("scope"), Ph("lang")>>]
    /\ variables["scope"] = Undefined
    /\ variables["lang"] = Some(<<Lit("en")>>)
    /\ tplResult = Some(<<Lit("en"), Ph("scope"), Lit("en")>>)

\* C13 (Spec): without ensemble the other backend is never invoked, the
\* main backend is invoked exactly once per generation (once more only for
\* a regeneration the user asked for), and a failed invocation ends the run
\* rejected with that backend's own error and nothing committed.
C13_SingleBackendOnce ==
    ~config.ensemble =>
        /\ calls[OtherModel(config.model)] = 0
        /\ calls[config.model] =
              (IF pc = "start" THEN 0 ELSE IF decision = "regenerate" THEN 2 ELSE 1)
        /\ outcome.state = "rejected" =>
              /\ outcome.error = "GenerationError:" \o config.model
              /\ commits = <<>>
              /\ ~\E i \in 1..Len(shown) : shown[i].kind = "committed"

\* C13 witness: the only invocation failed although the other backend's key
\* was set and the run was asked to commit
C13_Witness ==
    /\ ~config.ensemble /\ config.apply /\ ~config.dryRun
    /\ env[OtherModel(config.model)]
    /\ decision = "none"
    /\ outcome.state = "rejected"
    /\ calls[config.model] = 1
    /\ commits = <<>>

\* A record the statistics cannot process: its date does not parse
Unprocessable(c) == c.date = Null

\* C14 (SpecStats): when the log query fails, or generateCommitStatistics
\* meets a record it cannot process, the call throws and no report, not
\* even a partial one, is returned; analyzeCommitHistory likewise when the
\* query fails.
C14_FailsAsAWhole ==
    /\ (statsPc \in {"returned", "thrown"}
          /\ (~log.ok \/ \E i \in 1..Len(log.all) : Unprocessable(log.all[i])))
            => statsPc = "thrown"
    /\ (statsPc \in {"analyzed", "analyzeThrown"} /\ ~log.ok)
            => statsPc = "analyzeThrown"
    /\ statsPc \in {"thrown", "analyzeThrown"} => report = NoReport

\* C14 witness: one bad record among good ones made the whole call throw
C14_Witness ==
    /\ statsPc = "thrown"
    /\ log.ok
    /\ Len(log.all) = MaxLog
    /\ Unprocessable(log.all[MaxLog])
    /\ \A i \in 1..(MaxLog - 1) : ~Unprocessable(log.all[i])
    /\ report = NoReport

\* C15 (SpecConfig): for every option the effective value is the one typed
\* on the command line if there is one, otherwise the one the config file
\* sets if it sets one, otherwise the built-in default.
C15_CliThenFileThenDefault ==
    /\ mergePc = "index" =>
          /\ parsed.ok
          /\ \A o \in Options :
                parsed.config[o] =
                    (IF cliArgs[o] # Undefined THEN cliArgs[o]
                     ELSE IF fileConfig[o] # Undefined THEN fileConfig[o]
                     ELSE Some(SchemaDefault(o)))
    /\ (mergePc = "cli" /\ cliArgs["maxDiffSize"] = Undefined) =>
          /\ parsed.ok
          /\ \A o \in CliOptions :
                parsed.config[o] =
                    (IF cliArgs[o] # Undefined THEN cliArgs[o]
                     ELSE IF fileConfig[o] # Undefined THEN fileConfig[o]
                     ELSE Some(CliBuiltIn(o)))

\* C16 (SpecScope): the touched paths over which grouping keys are counted
\* hold each path other than the sentinel at most once.
C16_TouchedPathsDistinct ==
    scopePc = "returned" =>
        \A i, j \in 1..Len(TouchedPaths) :
            (i # j /\ PathStr(TouchedPaths[i]) \notin {"", "/dev/null"})
                => TouchedPaths[i] # TouchedPaths[j]

\* The commit handed to git failed
CommitFailed ==
    \E i \in 1..Len(shown) : shown[i].kind = "commit-failed"

\* C17 (Spec): when the commit fails the run ends as a failure, not as a
\* success, and the commit is not attempted again.
C17_CommitFailureSurfaced ==
    (pc = "done" /\ CommitFailed) =>
        /\ outcome.state = "rejected"
        /\ Len(commits) = 1

\* buildPrompt has returned
PromptBuilt == promptPc \in {"claude", "openai"}

\* The prompt the same provider builds when no template is configured
PromptWithoutTemplate ==
    LET cfg == [promptConfig EXCEPT !.template = Null]
    IN  IF promptPc = "claude"
        THEN ClaudeBuildPrompt(diff, cfg, templateFile).prompt
        ELSE OpenAIBuildPrompt(diff, cfg, templateFile).prompt

\* C18 (SpecPrompt): when a template is configured and its file is missing
\* or unreadable, buildPrompt still returns, the prompt is the one built
\* with no template configured, and a warning has been written.
C18_MissingTemplateFallsBack ==
    (PromptBuilt /\ promptConfig.template # Null /\ templateFile.state # "ok")
        => /\ prompt = PromptWithoutTemplate
           /\ \E i \in 1..Len(warnings) : warnings[i].kind = "warn"

\* C19 (SpecPrompt): when detectScope is set and detectScopeFromDiff gives
\* a label for the diff, the prompt a provider builds holds that label.
C19_DetectedScopeInPrompt ==
    (PromptBuilt /\ promptConfig.detectScope /\ detectScopeFromDiff(diff) # Null)
        => Lit(detectScopeFromDiff(diff)[1]) \in Range(prompt)

\* No grouping key is in more than half of the touched paths
NoMajorityKey ==
    \A k \in Range(TouchedKeys) :
        2 * CountIn(TouchedKeys, k) <= Len(TouchedPaths)

\* The position in specialDirs of a name that is the grouping key of more
\* than a third of the touched paths
Qualifying ==
    {i \in 1..Len(specialDirs) :
        3 * CountIn(TouchedKeys, specialDirs[i]) > Len(TouchedPaths)}

\* The touched paths under a directory that have a second segment
PathsUnder(name) ==
    {i \in 1..Len(TouchedPaths) :
        /\ Len(TouchedPaths[i]) > 1
        /\ SegStr(TouchedPaths[i][1]) = name
        /\ SegStr(TouchedPaths[i][2]) # ""}

\* The second segments that are the second segment of more than half of
\* the paths under the directory
MajoritySeconds(name) ==
    {SegStr(TouchedPaths[i][2]) : i \in
        {i \in PathsUnder(name) :
            2 * Cardinality({j \in PathsUnder(name) :
                    TouchedPaths[j][2] = TouchedPaths[i][2]})
                > Cardinality(PathsUnder(name))}}

\* C20 (SpecScope): when no grouping key has a strict majority, the answer
\* is decided by the first of src, lib, test, tests, components, pages,
\* utils, config that is the grouping key of more than a third of the
\* paths: "<name>/<second>" when a second segment has a strict majority
\* among the paths under that name, "<name>" otherwise, and null when no
\* name qualifies.
C20_SpecialDirectoryFallback ==
    (scopePc = "returned" /\ TouchedPaths # <<>> /\ NoMajorityKey) =>
        IF Qualifying = {} THEN scopeResult = Null
        ELSE LET first == CHOOSE i \in Qualifying : \A j \in Qualifying : i <= j
                 name == specialDirs[first]
             IN  IF MajoritySeconds(name) # {}
                 THEN \E second \in MajoritySeconds(name) :
                          scopeResult = Some(name \o "/" \o second)
                 ELSE scopeResult = Some(name)

\* The message lengths of the log under test
Lengths == LengthsOf(log.all)

\* The k-th smallest of the lengths, repetitions counted
KthLength(k) ==
    CHOOSE v \in Range(Lengths) :
        /\ Cardinality({i \in 1..Len(Lengths) : Lengths[i] < v}) < k
        /\ Cardinality({i \in 1..Len(Lengths) : Lengths[i] <= v}) >= k

FracLe(a, b) == a.d > 0 /\ b.d > 0 /\ a.n * b.d <= b.n * a.d

\* C21 (SpecStats): on a non-empty log the median is the middle one of the
\* lengths in ascending order when their number is odd and the mean of the
\* two central ones when it is even, and both the median and the average
\* lie between min and max.
C21_MedianIsMiddle ==
    (statsPc = "returned" /\ log.all # <<>>) =>
        LET n == Len(Lengths)
            stats == report.messageLengths
        IN  /\ FracEq(stats.median,
                      IF n % 2 = 1 THEN Frac(KthLength((n + 1) \div 2), 1)
                      ELSE Frac(KthLength(n \div 2) + KthLength(n \div 2 + 1), 2))
            /\ FracLe(Frac(stats.min, 1), stats.median)
            /\ FracLe(stats.median, Frac(stats.max, 1))
            /\ FracLe(Frac(stats.min, 1), stats.average)
            /\ FracLe(stats.average, Frac(stats.max, 1))
            /\ \A i \in 1..n : stats.min <= Lengths[i] /\ Lengths[i] <= stats.max

\* C21 witness: an even number of lengths given out of order, the two
\* central ones different, and the median their mean
C21_Witness ==
    /\ statsPc = "returned"
    /\ Len(Lengths) = 2
    /\ Lengths[1] > Lengths[2] + 1
    /\ FracEq(report.messageLengths.median, Frac(Lengths[1] + Lengths[2], 2))
    /\ FracLt(Frac(report.messageLengths.min, 1), report.messageLengths.median)

\* The number of commits of the log on a calendar day
CommitsOn(day) ==
    Cardinality({i \in 1..Len(log.all) : log.all[i].date[1].day = day})

DaysOfLog == {log.all[i].date[1].day : i \in 1..Len(log.all)}

SuggestionOrder == <<"adopt-type", "shorten", "batch">>

RECURSIVE ExpandOnce(_)
ExpandOnce(text) ==
    IF text = <<>> THEN <<>>
    ELSE LET tok == Head(text)
         IN  (IF tok.t = "ph" /\ Supplied(tok.v) THEN variables[tok.v][1]
              ELSE <<tok>>) \o ExpandOnce(Tail(text))

\* C23 (SpecTemplate): substitution is not recursive: a value put in place
\* of a placeholder stays as supplied, even when it holds {{otherKey}}.
C23_SubstitutionNotRecursive ==
    (tplPc = "returned" /\ templateFile.state = "ok")
        => tplResult = Some(Stripped(ExpandOnce(templateFile.text)))

\* An invocation of the fan-out is still in flight
Pending == \E i \in 1..Len(messages) : messages[i].state = "pending"

\* C24 (Spec): in ensemble mode, while an invocation of the fan-out is in
\* flight no final message is selected, shown, offered at the prompt or
\* committed.
C24_NoSelectionWhilePending ==
    (config.ensemble /\ Pending) =>
        /\ pc = "fanout"
        /\ finalMessage = Null
        /\ asked = <<>>
        /\ commits = <<>>
        /\ \A i \in 1..Len(shown) : shown[i].kind = "warn"

\* C24 witness: the first provider has answered, the second is in flight and
\* nothing is selected
C24_Witness ==
    /\ config.ensemble
    /\ Len(messages) = 2
    /\ messages[1].state = "ok"
    /\ messages[2].state = "pending"
    /\ finalMessage = Null

\* C25 (Spec): in ensemble mode no backend is invoked a second time within
\* one generation, whatever the backends of the fan-out answered.
C25_NoSecondInvocation ==
    (config.ensemble /\ decision # "regenerate") =>
        \A p \in ModelNames : calls[p] <= 1

\* C26 (Spec): after accept the final message is the generated text, after
\* edit it is the editor's text without surrounding whitespace; that
\* message is the one shown as final and, with apply and without dryRun,
\* the one committed.
C26_AcceptKeepsEditTrims ==
    (pc \in {"committing", "done"} /\ decision \in {"accept", "edit"}) =>
        LET expected == IF decision = "accept" THEN asked[1]
                        ELSE [edited[1] EXCEPT !.padded = FALSE]
        IN  /\ decision = "accept" => expected.by \in ModelNames
            /\ finalMessage = Some(expected)
            /\ [kind |-> "final", text |-> expected] \in Range(shown)
            /\ \A i \in 1..Len(shown) :
                  shown[i].kind = "final" => shown[i].text = expected
            /\ commits = IF config.apply /\ ~config.dryRun
                         THEN <<expected>> ELSE <<>>

\* C26 witness: a padded text from the editor was committed without its
\* padding
C26_Witness ==
    /\ decision = "edit"
    /\ edited # Null
    /\ edited[1].padded
    /\ pc = "done"
    /\ commits = <<[edited[1] EXCEPT !.padded = FALSE]>>

\* C27 (Spec): with ensemble set, a regenerate decision invokes every
\* provider of the fan-out again.
C27_RegenerateFansOut ==
    (config.ensemble /\ decision = "regenerate") =>
        \A i \in 1..Len(providers) : calls[providers[i]] >= 2

\* A copy of the diff with lines i and i + 1 exchanged
SwapLines(d, i) ==
    [k \in 1..Len(d) |->
        IF k = i THEN d[i + 1] ELSE IF k = i + 1 THEN d[i] ELSE d[k]]

\* C29 (SpecScope): detectScopeFromDiff gives the same answer when two
\* neighbouring lines of the diff change places, hence (every diff of the
\* bound being checked) for every order of the same touched paths.
C29_OrderIndependent ==
    scopePc = "returned" =>
        \A i \in 1..(Len(diff) - 1) :
            detectScopeFromDiff(SwapLines(diff, i)) = scopeResult

\* C29 witness: two keys tie, in either order, and neither is returned
C29_Witness ==
    /\ scopePc = "returned"
    /\ Len(TouchedPaths) = 2
    /\ TouchedKeys[1] # TouchedKeys[2]
    /\ TouchedKeys[1] \notin Range(specialDirs)
    /\ TouchedKeys[2] \notin Range(specialDirs)
    /\ scopeResult = Null
    /\ detectScopeFromDiff(SwapLines(diff, 1)) = Null

\* C30 (Spec): in ensemble mode the provider the run was started with is
\* the last of the providers array and occurs in it once, so after the
\* fan-out its text is the final message only if every provider before it
\* failed.
C30_MainProviderLast ==
    (config.ensemble /\ providers # <<>>) =>
        /\ providers[Len(providers)] = config.model
        /\ \A i \in 1..(Len(providers) - 1) : providers[i] # config.model
        /\ (decision = "none" /\ finalMessage # Null
              /\ finalMessage[1].by = config.model)
                => \A i \in 1..(Len(messages) - 1) : messages[i].state = "failed"

\* C30 witness: the other provider failed, the main one answered and its
\* text is the final message
C30_Witness ==
    /\ config.ensemble
    /\ Len(providers) = 2
    /\ messages[1].state = "failed"
    /\ messages[2].state = "ok"
    /\ decision = "none"
    /\ finalMessage = Some(messages[2].text)
    /\ finalMessage[1].by = config.model

\* The console lines of one kind, in the order they were printed
IsProcessing(e) == e.kind = "processing"
IsResult(e) == e.kind \in {"generated", "error"}
IsErrorLine(e) == e.kind = "error"
HashesSaid(lines) == [i \in 1..Len(lines) |-> lines[i].hash]

\* C28: when processBatchMode ends on a log it could read, the commits it
\* announced are exactly those of the log, once each and in the log's
\* order, and each has exactly one result, a generated message or a
\* reported error; a failure of one commit therefore never ends the loop,
\* and the method resolves.  No step of batch mode creates a commit.
C28_EveryCommitOnceInOrder ==
    /\ commits = <<>>
    /\ HashesSaid(SelectSeq(batchOut, IsProcessing))
         = SubSeq(batchLog.all, 1, batchIdx)
    /\ (batchPc = "done" /\ batchLog.ok) =>
          /\ HashesSaid(SelectSeq(batchOut, IsProcessing)) = batchLog.all
          /\ HashesSaid(SelectSeq(batchOut, IsResult)) = batchLog.all
          /\ batchOutcome = "resolved"

\* A full range whose first commit failed and whose last commit was still
\* given a generated message
C28_Witness ==
    /\ batchPc = "done"
    /\ Len(batchLog.all) = MaxBatch
    /\ Said("error", batchLog.all[1]) \in Range(batchOut)
    /\ Said("generated", batchLog.all[MaxBatch]) \in Range(batchOut)
    /\ commits = <<>>

====
